---- MODULE Spec2Model ----
(***************************************************************************)
(* Model of telegram_logger.py: the SQLite message store, the new-message  *)
(* handler, the explicit-deletion handler and the watchdog that diffs the   *)
(* stored own-message ids of a one-to-one chat against the remote history. *)
(* The three coroutines share one thread: each action below is the code    *)
(* that runs between two awaits.                                            *)
(***************************************************************************)
EXTENDS Integers, Sequences, FiniteSets, TLC

\* ---------------------------------------------------------------- bounds
MaxId == 2          \* message ids are 1..MaxId
MaxNew == 2         \* new-message events delivered
MaxDel == 1         \* deletion events delivered
MaxBatch == 2       \* ids per deletion event
MaxIter == 2        \* watchdog iterations started

Ids == 1..MaxId

\* ------------------------------------------------------- values
UserChats == {"u1", "u2"}      \* entities that are telethon User objects
GroupChats == {"g1"}           \* entities that are not
Chats == UserChats \cup GroupChats
OWN_USER_ID == "own"
NoneChat == "None"             \* Python None as a chat_id
UnknownChat == "unknown"       \* getattr default, line 122
BY_OWNER == "deleted_by_owner"
BY_OTHER == "deleted_by_other_party"
TextNotAvailable == <<"<text", "not", "available>">>   \* line 121
TextUnknown == <<"<unknown>">>                          \* line 173

\* A text is the sequence of its whitespace-separated tokens.
UrlTokens == {"https://a.com"}
SeeUrl == <<"see", "https://a.com">>
\* The new-message events delivered: chat, sender and msg.text, where {} is
\* None (a message without text) and {t} is the string t.
NewEvent(chat, sender, raw) == [chat_id |-> chat, sender_id |-> sender, text |-> raw]
NewEvents ==
  {NewEvent("u1", OWN_USER_ID, {SeeUrl}), NewEvent("u1", "other", {}),
   NewEvent("u2", OWN_USER_ID, {}), NewEvent("g1", OWN_USER_ID, {SeeUrl})}
\* event.chat_id of a MessageDeleted event: {} is "no such attribute"
Hints == {{}, {"g1"}}

VARIABLES
  messages,     \* table messages: msg_id -> row, domain = stored ids
  deletions,    \* table deletions: sequence of rows in insertion order
  remote,       \* chat -> ids of own messages live upstream
  handler,      \* the in-flight deleted_message_handler coroutine
  wd,           \* the watchdog_deleted_by_others coroutine
  delivered,    \* msg_id -> number of deletion events that listed it
  n_new, n_del, n_iter,
  replayed,     \* a new-message event hit a stored id with other columns
  store0        \* the messages table at start-up

vars == <<messages, deletions, remote, handler, wd, delivered,
          n_new, n_del, n_iter, replayed, store0>>

\* ------------------------------------------------------- pure helpers
RECURSIVE SelectUrls(_)
SelectUrls(t) ==
  IF t = <<>> THEN <<>>
  ELSE IF Head(t) \in UrlTokens THEN <<Head(t)>> \o SelectUrls(Tail(t))
       ELSE SelectUrls(Tail(t))

\* extract_urls: the matches of https?://\S+ in order, '' for no text
extract_urls(text) == IF text = <<>> THEN <<>> ELSE SelectUrls(text)

\* msg.text or ''
TextOrEmpty(raw) == IF raw = {} THEN <<>> ELSE CHOOSE t \in raw : TRUE

\* INSERT OR REPLACE in place of INSERT OR IGNORE
InsertOrReplace(m, id, row) ==
  IF id \in DOMAIN m THEN [m EXCEPT ![id] = row] ELSE m @@ (id :> row)

\* an upsert that refreshes the text and urls of a stored row
InsertOrUpdateText(m, id, row) ==
  IF id \in DOMAIN m
  THEN [m EXCEPT ![id].message = row.message, ![id].detected_urls = row.detected_urls]
  ELSE m @@ (id :> row)

\* INSERT OR IGNORE INTO messages (msg_id is the primary key)
InsertOrIgnore(m, id, row) ==
  IF id \in DOMAIN m THEN m ELSE m @@ (id :> row)

\* no update at all
MarkDeleted_Skip(m, id) == m

\* an update restricted to the account's own messages
MarkDeleted_OwnOnly(m, id) ==
  IF id \in DOMAIN m /\ m[id].from_id = OWN_USER_ID
  THEN [m EXCEPT ![id].deleted = TRUE] ELSE m

\* a DELETE of the row in place of the update
MarkDeleted_Purge(m, id) == [j \in DOMAIN m \ {id} |-> m[j]]

\* an update that flips the flag instead of setting it
MarkDeleted_Toggle(m, id) ==
  IF id \in DOMAIN m THEN [m EXCEPT ![id].deleted = ~@] ELSE m

\* UPDATE messages SET deleted = 1 WHERE msg_id = ?
MarkDeleted(m, id) ==
  IF id \in DOMAIN m THEN [m EXCEPT ![id].deleted = TRUE] ELSE m

\* an INSERT that is left out for a message that has a row
InsertDeletion_UnseenOnly(d, id, chat, text, reason) ==
  IF text \in {TextNotAvailable, TextUnknown}
  THEN Append(d, [msg_id |-> id, chat_id |-> chat, message |-> text, reason |-> reason])
  ELSE d

\* INSERT INTO deletions (...)
InsertDeletion(d, id, chat, text, reason) ==
  Append(d, [msg_id |-> id, chat_id |-> chat, message |-> text, reason |-> reason])

\* SELECT DISTINCT chat_id FROM messages WHERE from_id = OWN_USER_ID
ChatsWithOwn(m) ==
  {m[i].chat_id : i \in {j \in DOMAIN m : m[j].from_id = OWN_USER_ID}}

\* the same query without "AND deleted = 0"
UndeletedOwnIds_AnyFlag(m, chat) ==
  {i \in DOMAIN m : m[i].chat_id = chat /\ m[i].from_id = OWN_USER_ID}

\* SELECT msg_id FROM messages WHERE chat_id = ? AND from_id = ? AND deleted = 0
UndeletedOwnIds(m, chat) ==
  {i \in DOMAIN m : m[i].chat_id = chat /\ m[i].from_id = OWN_USER_ID
                    /\ ~m[i].deleted}

\* a difference that forgets to subtract the remote ids
MissingIds_NoDiff(db_msg_ids, actual_msg_ids) == db_msg_ids

\* deleted_ids = db_msg_ids - actual_msg_ids
MissingIds(db_msg_ids, actual_msg_ids) == db_msg_ids \ actual_msg_ids

\* a default of None in place of 'unknown'
HintChat_None(hint) == IF hint = {} THEN NoneChat ELSE CHOOSE c \in hint : TRUE

\* getattr(event, 'chat_id', 'unknown')
HintChat(hint) == IF hint = {} THEN UnknownChat ELSE CHOOSE c \in hint : TRUE

\* send_webhook, send_telegram_alert: the call returns whatever happens; a
\* failure leaves a warning in the log. ok covers "no webhook URL" as well.
\* warned: the positions of the batch at which a warning was logged.
send_webhook(warned, k, ok) == IF ok THEN warned ELSE warned \cup {k}
send_telegram_alert(warned, k, ok) == IF ok THEN warned ELSE warned \cup {k}

\* event.deleted_ids: lists of distinct ids
RECURSIVE SeqsOver(_, _)
SeqsOver(S, n) ==
  IF n = 0 THEN {<<>>}
  ELSE LET shorter == SeqsOver(S, n - 1) IN
       shorter \cup {Append(q, x) : q \in {r \in shorter : Len(r) = n - 1}, x \in S}
Distinct(q) == \A a, b \in 1..Len(q) : a # b => q[a] # q[b]
Batches == {q \in SeqsOver(Ids, MaxBatch) : q # <<>> /\ Distinct(q)}

\* ------------------------------------------------------- initial state
IdleHandler ==
  [pc |-> "idle", ids |-> <<>>, i |-> 0, hint |-> {}, alerts |-> 0, warned |-> {}]
SleepingWatchdog ==
  [pc |-> "sleep", chats |-> {}, chat_id |-> NoneChat, db_msg_ids |-> {},
   actual_msg_ids |-> {}, pending |-> {}, todo |-> {}, failed |-> {},
   partial |-> {}]

Init ==
  /\ messages = <<>>
  /\ deletions = <<>>
  /\ remote = [c \in Chats |-> {}]
  /\ handler = IdleHandler
  /\ wd = SleepingWatchdog
  /\ delivered = [i \in Ids |-> 0]
  /\ n_new = 0 /\ n_del = 0 /\ n_iter = 0
  /\ replayed = FALSE
  /\ store0 = messages

\* ------------------------------------------------------- new_message_handler
\* the row of lines 108-111; deleted takes the column's default
NewRow(chat, sender, raw) ==
  LET text == TextOrEmpty(raw) IN
  [chat_id |-> chat, from_id |-> sender, message |-> text,
   deleted |-> FALSE, detected_urls |-> extract_urls(text)]

\* lines 103-113. An own message ingested for the first time exists upstream.
NewMessage(id, chat, sender, raw) ==
  /\ n_new < MaxNew
  /\ n_new' = n_new + 1
  /\ messages' = InsertOrIgnore(messages, id, NewRow(chat, sender, raw))
  /\ remote' = IF sender = OWN_USER_ID /\ id \notin DOMAIN messages
               THEN [remote EXCEPT ![chat] = @ \cup {id}] ELSE remote
  /\ replayed' = (replayed \/ (id \in DOMAIN messages /\
                     [messages[id] EXCEPT !.deleted = FALSE] # NewRow(chat, sender, raw)))
  /\ UNCHANGED <<deletions, handler, wd, delivered, n_del, n_iter, store0>>

\* a new-message event without chat_id whose get_chat() lookup raises (line 107)
NewMessageNoChat ==
  /\ n_new < MaxNew
  /\ n_new' = n_new + 1
  /\ UNCHANGED <<messages, deletions, remote, handler, wd,
                 delivered, n_del, n_iter, replayed, store0>>

\* ------------------------------------------------------- deleted_message_handler
\* a handler that attributes the record to the chat of the event when the
\* event names one
HandleId_EventChat(h, k, hook_ok) ==
  LET id == h.ids[k]
      found == id \in DOMAIN messages
      original_text == IF found THEN messages[id].message ELSE TextNotAvailable
      chat_id == IF h.hint # {} \/ ~found THEN HintChat(h.hint)
                 ELSE messages[id].chat_id
  IN /\ messages' = MarkDeleted(messages, id)
     /\ deletions' = InsertDeletion(deletions, id, chat_id, original_text, BY_OWNER)
     /\ handler' = [h EXCEPT !.pc = "get_entity", !.i = k,
                             !.warned = send_webhook(h.warned, k, hook_ok)]

\* a handler that takes the reason from the author of the stored row
HandleId_ByAuthor(h, k, hook_ok) ==
  LET id == h.ids[k]
      found == id \in DOMAIN messages
      original_text == IF found THEN messages[id].message ELSE TextNotAvailable
      chat_id == IF found THEN messages[id].chat_id ELSE HintChat(h.hint)
      reason == IF found /\ messages[id].from_id # OWN_USER_ID
                THEN BY_OTHER ELSE BY_OWNER
  IN /\ messages' = MarkDeleted(messages, id)
     /\ deletions' = InsertDeletion(deletions, id, chat_id, original_text, reason)
     /\ handler' = [h EXCEPT !.pc = "get_entity", !.i = k,
                             !.warned = send_webhook(h.warned, k, hook_ok)]

\* lines 118-140 for the id at position k of the batch, up to the await of
\* get_entity: look the row up, mark it, append the record, commit, post
HandleId(h, k, hook_ok) ==
  LET id == h.ids[k]
      found == id \in DOMAIN messages
      original_text == IF found THEN messages[id].message ELSE TextNotAvailable
      chat_id == IF found THEN messages[id].chat_id ELSE HintChat(h.hint)
  IN /\ messages' = MarkDeleted(messages, id)
     /\ deletions' = InsertDeletion(deletions, id, chat_id, original_text, BY_OWNER)
     /\ handler' = [h EXCEPT !.pc = "get_entity", !.i = k,
                             !.warned = send_webhook(h.warned, k, hook_ok)]

\* a MessageDeleted event arrives and its handler runs to the first await
DeletedEvent(ids, hint, hook_ok) ==
  /\ handler.pc \in {"idle", "failed"}
  /\ n_del < MaxDel
  /\ n_del' = n_del + 1
  /\ delivered' = [x \in Ids |->
                     IF \E k \in 1..Len(ids) : ids[k] = x
                     THEN delivered[x] + 1 ELSE delivered[x]]
  /\ HandleId([IdleHandler EXCEPT !.ids = ids, !.hint = hint], 1, hook_ok)
  /\ UNCHANGED <<remote, wd, n_new, n_iter, replayed, store0>>

\* lines 139-144: get_entity returns or raises (the label of the alert is the
\* entity's name or the raw chat id), then the alert is awaited
HandlerEntity ==
  /\ handler.pc = "get_entity"
  /\ handler' = [handler EXCEPT !.pc = "alert"]
  /\ UNCHANGED <<messages, deletions, remote, wd, delivered,
                 n_new, n_del, n_iter, replayed, store0>>

\* lines 144-147: the alert returns (its failure is logged inside
\* send_telegram_alert), then the next id of the batch up to its await
AfterAlert(ok, hook_ok) ==
  /\ LET h == [handler EXCEPT !.alerts = @ + 1,
                               !.warned = send_telegram_alert(@, handler.i, ok)] IN
     IF h.i < Len(h.ids)
     THEN HandleId(h, h.i + 1, hook_ok)
     ELSE /\ handler' = IdleHandler
          /\ UNCHANGED <<messages, deletions>>
  /\ UNCHANGED <<remote, wd, delivered, n_new, n_del, n_iter, replayed, store0>>

\* a failed alert that raises out of the handler
HandlerAlert_Raise(ok, hook_ok) ==
  /\ handler.pc = "alert"
  /\ IF ok THEN AfterAlert(ok, hook_ok)
     ELSE /\ handler' = [handler EXCEPT !.pc = "failed"]
          /\ UNCHANGED <<messages, deletions, remote, wd, delivered, n_new, n_del,
                         n_iter, replayed, store0>>

HandlerAlert(ok, hook_ok) ==
  /\ handler.pc = "alert"
  /\ AfterAlert(ok, hook_ok)

\* ------------------------------------------------------- watchdog_deleted_by_others
\* the for loop of line 154 moves on: the next chat of the list (fetchall gives
\* no order), or the sleep of line 202. Locals of the finished chat are dead.
\* failed: the chats of this iteration for which line 199 logged an error;
\* partial: the ids the fetches that raised in this iteration had collected.
AfterChat(w) ==
  IF w.chats = {}
  THEN {[SleepingWatchdog EXCEPT !.pc = "sleep", !.failed = w.failed,
                                 !.partial = w.partial]}
  ELSE {[SleepingWatchdog EXCEPT !.pc = "resolve", !.chat_id = c,
                                 !.chats = w.chats \ {c},
                                 !.failed = w.failed,
                                 !.partial = w.partial] : c \in w.chats}

\* an exception that ends the watchdog task
ChatFailed_Stop(w) == {[w EXCEPT !.pc = "crashed"]}

\* an exception that leaves the loop over the chats for the sleep
ChatFailed_Abort(w) ==
  {[SleepingWatchdog EXCEPT !.failed = w.failed \cup {w.chat_id},
                            !.partial = w.partial]}

\* except Exception as inner (lines 198-199): log, go on with the next chat
ChatFailed(w) == AfterChat([w EXCEPT !.failed = @ \cup {w.chat_id}])

\* the same without the SELECT of line 172: the record carries the sentinel
WatchdogId_NoLookup(w, id) ==
  /\ messages' = MarkDeleted(messages, id)
  /\ deletions' = InsertDeletion(deletions, id, w.chat_id, TextUnknown, BY_OTHER)
  /\ wd' = [w EXCEPT !.pc = "get_entity", !.todo = w.todo \ {id}]

\* lines 172-190 for one missing id, up to the await of get_entity
WatchdogId(w, id) ==
  LET found == id \in DOMAIN messages
      deleted_text == IF found THEN messages[id].message ELSE TextUnknown
  IN /\ messages' = MarkDeleted(messages, id)
     /\ deletions' = InsertDeletion(deletions, id, w.chat_id, deleted_text, BY_OTHER)
     /\ wd' = [w EXCEPT !.pc = "get_entity", !.todo = w.todo \ {id}]

\* lines 151-156: the sleep ends, the chats are read, the first is resolved.
\* n_iter counts the iterations up to MaxIter; bounded: no iteration after that.
Wake(bounded) ==
  /\ wd.pc = "sleep"
  /\ bounded => n_iter < MaxIter
  /\ n_iter' = IF n_iter < MaxIter THEN n_iter + 1 ELSE n_iter
  /\ wd' \in AfterChat([wd EXCEPT !.chats = ChatsWithOwn(messages),
                                   !.failed = {}, !.partial = {}])
  /\ UNCHANGED <<messages, deletions, remote, handler,
                 delivered, n_new, n_del, replayed, store0>>

WatchdogWake == Wake(TRUE)

\* while True: the loop never ends
WatchdogLoop == Wake(FALSE)

\* the same without the isinstance test of line 157
WatchdogEntity_AnyChat(ok) ==
  /\ wd.pc = "resolve"
  /\ IF ~ok THEN wd' \in ChatFailed(wd)
     ELSE wd' = [wd EXCEPT !.pc = "fetch",
                           !.db_msg_ids = UndeletedOwnIds(messages, wd.chat_id),
                           !.actual_msg_ids = {},
                           !.pending = remote[wd.chat_id]]
  /\ UNCHANGED <<messages, deletions, remote, handler,
                 delivered, n_new, n_del, n_iter, replayed, store0>>

\* lines 156-167: get_entity raises, or returns a non-User, or returns a User
\* and the undeleted own ids are read before the history is iterated.
\* iter_messages walks the history from its newest message at the time of
\* the call towards the oldest: pending is what it has still to yield, and a
\* message sent after the call is not part of the walk.
WatchdogEntity(ok) ==
  /\ wd.pc = "resolve"
  /\ IF ~ok THEN wd' \in ChatFailed(wd)
     ELSE IF wd.chat_id \notin UserChats THEN wd' \in AfterChat(wd)
     ELSE wd' = [wd EXCEPT !.pc = "fetch",
                           !.db_msg_ids = UndeletedOwnIds(messages, wd.chat_id),
                           !.actual_msg_ids = {},
                           !.pending = remote[wd.chat_id]]
  /\ UNCHANGED <<messages, deletions, remote, handler,
                 delivered, n_new, n_del, n_iter, replayed, store0>>

\* lines 167-168: iter_messages yields one more message, one that is live
WatchdogFetchNext(id) ==
  /\ wd.pc = "fetch"
  /\ id \in wd.pending \cap remote[wd.chat_id]
  /\ wd' = [wd EXCEPT !.actual_msg_ids = @ \cup {id}, !.pending = @ \ {id}]
  /\ UNCHANGED <<messages, deletions, remote, handler,
                 delivered, n_new, n_del, n_iter, replayed, store0>>

\* a fetch that raises and is taken for a complete one: the difference is
\* computed from what was collected
WatchdogFetchFail_Diff ==
  /\ wd.pc = "fetch"
  /\ LET w == [wd EXCEPT !.partial = @ \cup wd.actual_msg_ids,
                          !.failed = @ \cup {wd.chat_id}]
         deleted_ids == MissingIds(wd.db_msg_ids, wd.actual_msg_ids) IN
     IF deleted_ids = {}
     THEN /\ wd' \in AfterChat(w)
          /\ UNCHANGED <<messages, deletions>>
     ELSE \E id \in deleted_ids :
            /\ messages' = MarkDeleted(messages, id)
            /\ deletions' = InsertDeletion(deletions, id, wd.chat_id,
                                           messages[id].message, BY_OTHER)
            /\ wd' = [w EXCEPT !.pc = "get_entity", !.todo = deleted_ids \ {id}]
  /\ UNCHANGED <<remote, handler, delivered, n_new, n_del, n_iter, replayed, store0>>

\* iter_messages raises: the except of line 198. What the loop of line 167
\* had collected is dropped with the chat.
WatchdogFetchFail ==
  /\ wd.pc = "fetch"
  /\ wd' \in ChatFailed([wd EXCEPT !.partial = @ \cup wd.actual_msg_ids])
  /\ UNCHANGED <<messages, deletions, remote, handler,
                 delivered, n_new, n_del, n_iter, replayed, store0>>

\* the difference taken from the store as it is when the fetch ends, not
\* from the ids read before the fetch
WatchdogFetchEnd_LateSnapshot ==
  /\ wd.pc = "fetch"
  /\ wd.pending \cap remote[wd.chat_id] = {}
  /\ LET deleted_ids == MissingIds(UndeletedOwnIds(messages, wd.chat_id),
                                   wd.actual_msg_ids) IN
     IF deleted_ids = {}
     THEN /\ wd' \in AfterChat(wd)
          /\ UNCHANGED <<messages, deletions>>
     ELSE \E id \in deleted_ids :
            WatchdogId([wd EXCEPT !.todo = deleted_ids], id)
  /\ UNCHANGED <<remote, handler, delivered, n_new, n_del, n_iter, replayed, store0>>

\* lines 170-190: iter_messages is exhausted (every message of the walk that
\* is still live has been yielded), the difference is taken and the first
\* missing id is handled
WatchdogFetchEnd ==
  /\ wd.pc = "fetch"
  /\ wd.pending \cap remote[wd.chat_id] = {}
  /\ LET deleted_ids == MissingIds(wd.db_msg_ids, wd.actual_msg_ids) IN
     IF deleted_ids = {}
     THEN /\ wd' \in AfterChat(wd)
          /\ UNCHANGED <<messages, deletions>>
     ELSE \E id \in deleted_ids :
            WatchdogId([wd EXCEPT !.todo = deleted_ids], id)
  /\ UNCHANGED <<remote, handler, delivered, n_new, n_del, n_iter, replayed, store0>>

\* lines 188-194: the webhook post and get_entity return or raise, then the
\* alert is awaited
WatchdogLabel ==
  /\ wd.pc = "get_entity"
  /\ wd' = [wd EXCEPT !.pc = "alert"]
  /\ UNCHANGED <<messages, deletions, remote, handler,
                 delivered, n_new, n_del, n_iter, replayed, store0>>

\* lines 194-197: the alert returns or its failure is logged, then the next
\* missing id, the next chat or the sleep
WatchdogAlert ==
  /\ wd.pc = "alert"
  /\ IF wd.todo = {}
     THEN /\ wd' \in AfterChat(wd)
          /\ UNCHANGED <<messages, deletions>>
     ELSE \E id \in wd.todo : WatchdogId(wd, id)
  /\ UNCHANGED <<remote, handler, delivered, n_new, n_del, n_iter, replayed, store0>>

\* ------------------------------------------------------- upstream
\* an own message disappears upstream (removed by either party)
RemoteDelete(chat, id) ==
  /\ id \in remote[chat]
  /\ remote' = [remote EXCEPT ![chat] = @ \ {id}]
  /\ UNCHANGED <<messages, deletions, handler, wd, delivered,
                 n_new, n_del, n_iter, replayed, store0>>

\* ------------------------------------------------------- specification
Next ==
  \/ \E id \in Ids, e \in NewEvents :
        NewMessage(id, e.chat_id, e.sender_id, e.text)
  \/ NewMessageNoChat
  \/ \E ids \in Batches, hint \in Hints, hook_ok \in BOOLEAN :
        DeletedEvent(ids, hint, hook_ok)
  \/ HandlerEntity
  \/ \E ok \in BOOLEAN, hook_ok \in BOOLEAN : HandlerAlert(ok, hook_ok)
  \/ WatchdogWake
  \/ \E ok \in BOOLEAN : WatchdogEntity(ok)
  \/ \E id \in Ids : WatchdogFetchNext(id)
  \/ WatchdogFetchFail
  \/ WatchdogFetchEnd
  \/ WatchdogLabel
  \/ WatchdogAlert
  \/ \E chat \in Chats, id \in Ids : RemoteDelete(chat, id)

Spec == Init /\ [][Next]_vars

\* ------------------------------------------------------- storage errors
\* A statement on the shared cursor raises (sqlite3.Error). The connection is
\* one for all coroutines, so what ran before the failing statement is
\* visible to every later query, committed or not:
\*   "select": the SELECT or the UPDATE raised, nothing is written
\*   "insert": the INSERT raised, the UPDATE of the flag is written
\*   "commit": conn.commit() raised, flag and record are written
Stages == {"select", "insert", "commit"}

FaultyMark(m, id, stage) == IF stage = "select" THEN m ELSE MarkDeleted(m, id)
FaultyInsert(d, id, chat, text, reason, stage) ==
  IF stage = "commit" THEN InsertDeletion(d, id, chat, text, reason) ELSE d

\* lines 118-129 raise for the id at position k: nothing catches the error
\* inside deleted_message_handler, the coroutine ends with it
HandleIdFault(h, k, stage) ==
  LET id == h.ids[k]
      found == id \in DOMAIN messages
      original_text == IF found THEN messages[id].message ELSE TextNotAvailable
      chat_id == IF found THEN messages[id].chat_id ELSE HintChat(h.hint)
  IN /\ messages' = FaultyMark(messages, id, stage)
     /\ deletions' = FaultyInsert(deletions, id, chat_id, original_text, BY_OWNER, stage)
     /\ handler' = [h EXCEPT !.pc = "failed", !.i = k]

DeletedEventFault(ids, hint, stage) ==
  /\ handler.pc \in {"idle", "failed"}
  /\ n_del < MaxDel
  /\ n_del' = n_del + 1
  /\ delivered' = [x \in Ids |->
                     IF \E k \in 1..Len(ids) : ids[k] = x
                     THEN delivered[x] + 1 ELSE delivered[x]]
  /\ HandleIdFault([IdleHandler EXCEPT !.ids = ids, !.hint = hint], 1, stage)
  /\ UNCHANGED <<remote, wd, n_new, n_iter, replayed, store0>>

HandlerAlertFault(ok, stage) ==
  /\ handler.pc = "alert"
  /\ handler.i < Len(handler.ids)
  /\ HandleIdFault([handler EXCEPT !.alerts = @ + 1,
                      !.warned = send_telegram_alert(@, handler.i, ok)],
                   handler.i + 1, stage)
  /\ UNCHANGED <<remote, wd, delivered, n_new, n_del, n_iter, replayed, store0>>

\* lines 108-112 raise: the INSERT (nothing is written) or the commit
NewMessageFault(id, chat, sender, raw, stage) ==
  /\ n_new < MaxNew
  /\ n_new' = n_new + 1
  /\ messages' = IF stage = "commit"
                  THEN InsertOrIgnore(messages, id, NewRow(chat, sender, raw))
                  ELSE messages
  /\ UNCHANGED <<deletions, remote, handler, wd, delivered, n_del, n_iter,
                 replayed, store0>>

\* line 153 raises: the except of line 200, then the sleep
WatchdogWakeFault ==
  /\ wd.pc = "sleep"
  /\ n_iter < MaxIter
  /\ n_iter' = n_iter + 1
  /\ wd' = SleepingWatchdog
  /\ UNCHANGED <<messages, deletions, remote, handler, delivered, n_new, n_del,
                 replayed, store0>>

\* lines 160-163 raise: the except of line 198
WatchdogEntityFault ==
  /\ wd.pc = "resolve"
  /\ wd.chat_id \in UserChats
  /\ wd' \in ChatFailed(wd)
  /\ UNCHANGED <<messages, deletions, remote, handler, delivered, n_new, n_del,
                 n_iter, replayed, store0>>

\* lines 172-179 raise for a missing id: the except of line 198 ends the chat
WatchdogIdFault(w, id, stage) ==
  LET found == id \in DOMAIN messages
      deleted_text == IF found THEN messages[id].message ELSE TextUnknown
  IN /\ messages' = FaultyMark(messages, id, stage)
     /\ deletions' = FaultyInsert(deletions, id, w.chat_id, deleted_text, BY_OTHER, stage)
     /\ wd' \in ChatFailed(w)

WatchdogFetchEndFault(stage) ==
  /\ wd.pc = "fetch"
  /\ wd.pending \cap remote[wd.chat_id] = {}
  /\ \E id \in MissingIds(wd.db_msg_ids, wd.actual_msg_ids) :
       WatchdogIdFault(wd, id, stage)
  /\ UNCHANGED <<remote, handler, delivered, n_new, n_del, n_iter, replayed, store0>>

WatchdogAlertFault(stage) ==
  /\ wd.pc = "alert"
  /\ \E id \in wd.todo : WatchdogIdFault(wd, id, stage)
  /\ UNCHANGED <<remote, handler, delivered, n_new, n_del, n_iter, replayed, store0>>

NextF ==
  \/ Next
  \/ \E ids \in Batches, hint \in Hints, stage \in Stages :
        DeletedEventFault(ids, hint, stage)
  \/ \E ok \in BOOLEAN, stage \in Stages : HandlerAlertFault(ok, stage)
  \/ \E id \in Ids, e \in NewEvents, stage \in {"insert", "commit"} :
        NewMessageFault(id, e.chat_id, e.sender_id, e.text, stage)
  \/ WatchdogWakeFault
  \/ WatchdogEntityFault
  \/ \E stage \in Stages : WatchdogFetchEndFault(stage)
  \/ \E stage \in Stages : WatchdogAlertFault(stage)

SpecF == Init /\ [][NextF]_vars

\* ------------------------------------------------------- one watchdog alone
\* The watchdog runs from any database the handlers can have left behind: any
\* rows, any of them already marked by a deletion event (with its record), and
\* any set of own messages live upstream. Nothing else runs.
StoredRows ==
  {[NewRow(e.chat_id, e.sender_id, e.text) EXCEPT !.deleted = d] :
     e \in NewEvents, d \in BOOLEAN}
Stores == UNION {[S -> StoredRows] : S \in SUBSET Ids}

RECURSIVE RecordsOf(_, _)
RecordsOf(m, S) ==
  IF S = {} THEN <<>>
  ELSE LET i == CHOOSE x \in S : \A y \in S : x <= y IN
       <<[msg_id |-> i, chat_id |-> m[i].chat_id, message |-> m[i].message,
          reason |-> BY_OWNER]>> \o RecordsOf(m, S \ {i})

InitPass ==
  /\ messages \in Stores
  /\ deletions = RecordsOf(messages, {i \in DOMAIN messages : messages[i].deleted})
  /\ remote \in [Chats -> SUBSET Ids]
  /\ handler = IdleHandler
  /\ wd = SleepingWatchdog
  /\ delivered = [i \in Ids |-> IF i \in DOMAIN messages /\ messages[i].deleted
                                THEN 1 ELSE 0]
  /\ n_new = 0 /\ n_del = 0 /\ n_iter = 0
  /\ replayed = FALSE
  /\ store0 = messages

NextPass ==
  \/ WatchdogWake
  \/ \E ok \in BOOLEAN : WatchdogEntity(ok)
  \/ \E id \in Ids : WatchdogFetchNext(id)
  \/ WatchdogFetchFail
  \/ WatchdogFetchEnd
  \/ WatchdogLabel
  \/ WatchdogAlert

SpecPass == InitPass /\ [][NextPass]_vars

\* ------------------------------------------------------- the watchdog forever
\* New messages arrive, own messages disappear upstream, and the watchdog
\* loops without end. Every await of the watchdog returns or raises, and its
\* sleep ends: weak fairness of its steps.
WatchdogStep ==
  \/ WatchdogLoop
  \/ \E ok \in BOOLEAN : WatchdogEntity(ok)
  \/ \E id \in Ids : WatchdogFetchNext(id)
  \/ WatchdogFetchFail
  \/ WatchdogFetchEnd
  \/ WatchdogLabel
  \/ WatchdogAlert

NextLive ==
  \/ \E id \in Ids, e \in NewEvents :
        NewMessage(id, e.chat_id, e.sender_id, e.text)
  \/ \E chat \in Chats, id \in Ids : RemoteDelete(chat, id)
  \/ WatchdogStep

SpecLive == Init /\ [][NextLive]_vars /\ WF_vars(WatchdogStep)

\* ------------------------------------------------------- properties
\* the number of deletion records of message i with the given reason
CountRecords(i, reason) ==
  Cardinality({k \in 1..Len(deletions) :
                 deletions[k].msg_id = i /\ deletions[k].reason = reason})

\* the undeleted own ids of a chat in the database the watchdog started from
Local0(c) ==
  {i \in DOMAIN store0 : /\ store0[i].chat_id = c
                          /\ store0[i].from_id = OWN_USER_ID
                          /\ ~store0[i].deleted}

\* C1: after a watchdog pass that nothing interleaves with, for every
\* one-to-one chat whose history was fetched completely, with L the undeleted
\* own ids stored for the chat and R the remote ids: the ids newly marked
\* deleted are exactly L \ R, each id of L \ R has exactly one
\* deleted_by_other_party record, and the ids of L \cap R keep their flag
\* and get no record.
C1_SetDifference ==
  (wd.pc = "sleep" /\ n_iter >= 1) =>
    \A c \in UserChats \ wd.failed :
      LET L == Local0(c)
          R == remote[c]
      IN /\ {i \in DOMAIN store0 : /\ store0[i].chat_id = c
                                    /\ ~store0[i].deleted
                                    /\ messages[i].deleted} = L \ R
         /\ \A i \in L \ R : /\ CountRecords(i, BY_OTHER) = 1
                              /\ CountRecords(i, BY_OWNER) = 0
         /\ \A i \in L \cap R : /\ ~messages[i].deleted
                                 /\ CountRecords(i, BY_OTHER) = 0
                                 /\ CountRecords(i, BY_OWNER) = 0

C1_Witness ==
  /\ wd.pc = "sleep" /\ n_iter >= 1
  /\ \E c \in UserChats \ wd.failed :
       /\ Local0(c) \ remote[c] # {}
       /\ Local0(c) \cap remote[c] # {}
       /\ \A i \in Local0(c) \ remote[c] :
            messages[i].deleted /\ CountRecords(i, BY_OTHER) = 1

\* the positions of the records of message i with the given reason
RecordsAt(i, reason) ==
  {k \in 1..Len(deletions) : deletions[k].msg_id = i /\ deletions[k].reason = reason}

WatchdogPcs == {"sleep", "resolve", "fetch", "get_entity", "alert"}

\* C2: when one deletion event and the watchdog both detect the disappearance
\* of a message, under every interleaving of the two coroutines, the message
\* is marked deleted from the first detection on, it has one
\* deleted_by_other_party record and at most one deleted_by_owner record, and
\* neither coroutine has stopped with an error.
C2_BothPathsOnce ==
  \A i \in Ids :
    (delivered[i] <= 1 /\ CountRecords(i, BY_OTHER) >= 1) =>
      /\ i \in DOMAIN messages /\ messages[i].deleted
      /\ CountRecords(i, BY_OTHER) = 1
      /\ CountRecords(i, BY_OWNER) <= 1
      /\ handler.pc # "failed"
      /\ wd.pc \in WatchdogPcs

\* both paths recorded the message, the watchdog after the handler had marked it
C2_Witness ==
  \E i \in Ids :
    /\ delivered[i] = 1
    /\ i \in DOMAIN messages /\ messages[i].deleted
    /\ \E a \in RecordsAt(i, BY_OWNER), b \in RecordsAt(i, BY_OTHER) : a < b

\* C3: a message marked deleted stays marked deleted, whatever runs next.
C3_Monotonic ==
  [][\A i \in DOMAIN messages :
       messages[i].deleted => (i \in DOMAIN messages' /\ messages'[i].deleted)]_vars

\* a marked message that the deletion handler, the watchdog and a second
\* new-message event have all acted on
C3_Witness ==
  \E i \in DOMAIN messages :
    /\ messages[i].deleted
    /\ CountRecords(i, BY_OWNER) >= 1 /\ CountRecords(i, BY_OTHER) >= 1
    /\ n_new >= 2

\* C4: a new-message event leaves every stored row as it is (text, chat,
\* sender, urls and deleted flag), also when it carries the id of a stored row
\* with other text, chat or sender; the handler returns normally.
C4_IngestIdempotent ==
  [][n_new' # n_new =>
       /\ \A i \in DOMAIN messages :
            i \in DOMAIN messages' /\ messages'[i] = messages[i]
       /\ deletions' = deletions]_vars

\* a second event for a stored id came with other columns and the row is as
\* the first event wrote it
C4_Witness ==
  /\ replayed
  /\ Cardinality(DOMAIN messages) = 1
  /\ \E i \in DOMAIN messages : messages[i] = NewRow("u1", OWN_USER_ID, {SeeUrl})

\* C5 as stated: a message id never has more than one deletion record.
C5_AtMostOneRecord ==
  \A i \in Ids : CountRecords(i, BY_OWNER) + CountRecords(i, BY_OTHER) <= 1

\* C5 as amended: a message id has at most one deletion record for each
\* deletion event that listed it, and one more from the watchdog.
C5_RecordsBounded ==
  \A i \in Ids :
    CountRecords(i, BY_OWNER) + CountRecords(i, BY_OTHER) <= delivered[i] + 1

\* a message with two records, one of each path
C5_Witness ==
  \E i \in Ids :
    /\ delivered[i] = 1
    /\ CountRecords(i, BY_OWNER) = 1 /\ CountRecords(i, BY_OTHER) = 1

\* message i is an undeleted own message of one-to-one chat c, gone upstream
GoneUnnoticed(i, c) ==
  /\ i \in DOMAIN messages
  /\ messages[i].chat_id = c /\ messages[i].from_id = OWN_USER_ID
  /\ ~messages[i].deleted
  /\ i \notin remote[c]

C7_OtherChatsReconciled ==
  (wd.pc = "sleep" /\ n_iter = 1 /\ wd.failed # {}) =>
    \A c \in UserChats \ wd.failed :
      \A i \in Local0(c) \ remote[c] :
        messages[i].deleted /\ CountRecords(i, BY_OTHER) >= 1

\* a chat has failed in this iteration and the watchdog has just marked and
\* recorded a message of a chat it went on with
C7_Witness ==
  /\ n_iter = 1 /\ wd.failed # {} /\ wd.pc = "get_entity"
  /\ wd.chat_id \notin wd.failed
  /\ \E i \in Local0(wd.chat_id) \ remote[wd.chat_id] :
       messages[i].deleted /\ CountRecords(i, BY_OTHER) = 1

\* the handler has just handled the id at position handler'.i of its batch
HandledNow == handler'.pc = "get_entity" /\ handler' # handler

\* C8: when the deletion handler handles an id that has no stored row, it
\* appends one record for it with the sentinel text, reason deleted_by_owner
\* and the chat of the event ('unknown' when the event has none), and the
\* messages table stays as it is.
C8_UnseenIdRecorded ==
  [][HandledNow =>
       LET i == handler'.ids[handler'.i] IN
       i \notin DOMAIN messages =>
         /\ deletions' = Append(deletions,
               [msg_id |-> i,
                chat_id |-> IF handler'.hint = {} THEN "unknown"
                            ELSE CHOOSE c \in handler'.hint : TRUE,
                message |-> <<"<text", "not", "available>">>,
                reason |-> "deleted_by_owner"])
         /\ messages' = messages]_vars

\* one event without a chat has left the sentinel record with chat 'unknown'
\* for two ids that have no row
C8_Witness ==
  /\ Len(deletions) = 2 /\ DOMAIN messages = {}
  /\ \A k \in 1..2 :
       /\ deletions[k].message = TextNotAvailable
       /\ deletions[k].chat_id = UnknownChat
       /\ deletions[k].reason = BY_OWNER

\* C10: in the deletion handler no notifier failure stops anything. The
\* webhook post and the label lookup lead to the alert with the tables
\* untouched; after the alert, failed or not, the next id of the batch is
\* marked (when it has a row) and recorded, or the handler returns; the
\* alert of every earlier id has been attempted; the handler never fails.
C10_NotifierSwallowed ==
  [][/\ handler'.pc # "failed"
     /\ handler'.pc \in {"get_entity", "alert"} => handler'.alerts = handler'.i - 1
     /\ (handler.pc = "get_entity" /\ handler' # handler) =>
          /\ handler' = [handler EXCEPT !.pc = "alert"]
          /\ messages' = messages /\ deletions' = deletions
     /\ (handler.pc = "alert" /\ handler' # handler) =>
          IF handler.i < Len(handler.ids)
          THEN LET id == handler.ids[handler.i + 1] IN
               /\ handler'.pc = "get_entity"
               /\ handler'.i = handler.i + 1 /\ handler'.ids = handler.ids
               /\ id \in DOMAIN messages =>
                    (id \in DOMAIN messages' /\ messages'[id].deleted)
               /\ Len(deletions') = Len(deletions) + 1
               /\ deletions'[Len(deletions')].msg_id = id
               /\ deletions'[Len(deletions')].reason = BY_OWNER
          ELSE handler'.pc = "idle"]_vars

\* a notifier failure was logged for the first id of a batch and the second
\* id is marked and recorded
C10_Witness ==
  /\ handler.pc = "get_entity" /\ handler.i = 2 /\ 1 \in handler.warned
  /\ handler.ids[2] \in DOMAIN messages /\ messages[handler.ids[2]].deleted
  /\ CountRecords(handler.ids[1], BY_OWNER) = 1
  /\ CountRecords(handler.ids[2], BY_OWNER) = 1

\* C9 as stated: a storage error costs the one record it hit. The deletion
\* handler does not end with ids of its batch unhandled, the watchdog goes
\* on with the chat when one of several missing ids could not be written,
\* and the watchdog loop keeps running.
C9_StorageErrorLocal ==
  [][/\ handler'.pc = "failed" => handler'.i = Len(handler'.ids)
     /\ (/\ wd.pc = "fetch" /\ wd' # wd /\ messages' # messages
         /\ Cardinality(wd.db_msg_ids \ wd.actual_msg_ids) >= 2)
          => (wd'.pc = "get_entity" /\ wd'.chat_id = wd.chat_id)
     /\ wd'.pc \in WatchdogPcs]_vars

\* C11: when the fetch of a chat's remote history raises before it is drained
\* (or the chat fails in any other way), the watchdog leaves the chat alone
\* for the iteration, whatever it had collected: every row of the chat is as
\* it was when the iteration started and no deleted_by_other_party record
\* names the chat.
C11_FailedFetchSkipsChat ==
  n_iter = 1 =>
    \A c \in wd.failed :
      /\ \A i \in DOMAIN store0 :
           store0[i].chat_id = c => messages[i] = store0[i]
      /\ \A k \in 1..Len(deletions) :
           deletions[k].reason = BY_OTHER => deletions[k].chat_id # c

\* the fetch of a chat raised after it had yielded some but not all of the
\* live ids; an undeleted own id of the chat was not among them, and the
\* iteration has ended with that id unmarked and unrecorded
C11_Witness ==
  /\ wd.pc = "sleep" /\ n_iter = 1
  /\ \E c \in UserChats :
       /\ wd.failed = {c}
       /\ wd.partial # {} /\ wd.partial \subseteq remote[c] /\ wd.partial # remote[c]
       /\ \E i \in Local0(c) \ wd.partial :
            ~messages[i].deleted /\ CountRecords(i, BY_OTHER) = 0

\* C12: the watchdog changes nothing for a chat whose entity is not a User:
\* every row of such a chat is as it was when the watchdog started and no
\* deleted_by_other_party record names such a chat, also when stored own
\* ids of the chat are gone upstream.
C12_NonUserChatUntouched ==
  /\ \A i \in DOMAIN store0 :
       store0[i].chat_id \in GroupChats => messages[i] = store0[i]
  /\ \A k \in 1..Len(deletions) :
       deletions[k].reason = BY_OTHER => deletions[k].chat_id \notin GroupChats

\* an iteration has resolved a group chat without failing; an undeleted own
\* message of the group is gone upstream and is still unmarked and unrecorded
C12_Witness ==
  /\ wd.pc = "sleep" /\ n_iter >= 1 /\ wd.failed = {}
  /\ \E i \in DOMAIN store0 :
       /\ store0[i].chat_id \in GroupChats
       /\ store0[i].from_id = OWN_USER_ID /\ ~store0[i].deleted
       /\ i \notin remote[store0[i].chat_id]
       /\ ~messages[i].deleted /\ CountRecords(i, BY_OTHER) = 0

\* C13: every deletion record has reason deleted_by_owner or
\* deleted_by_other_party; a record appended by a step of the deletion handler
\* has deleted_by_owner, whoever wrote the message and whoever removed it, and
\* a record appended by a step of the watchdog has deleted_by_other_party.
C13_Reasons ==
  [][/\ \A k \in 1..Len(deletions') :
          deletions'[k].reason \in {"deleted_by_owner", "deleted_by_other_party"}
     /\ Len(deletions') > Len(deletions) =>
          LET r == deletions'[Len(deletions')].reason IN
          /\ handler' # handler => r = "deleted_by_owner"
          /\ wd' # wd => r = "deleted_by_other_party"]_vars

\* the handler has recorded a message written by the other party, removed
\* upstream by nobody, and the watchdog has recorded another message
C13_Witness ==
  /\ \E k \in 1..Len(deletions) :
       LET i == deletions[k].msg_id IN
       /\ deletions[k].reason = BY_OWNER
       /\ i \in DOMAIN messages /\ messages[i].from_id # OWN_USER_ID
  /\ \E k \in 1..Len(deletions) : deletions[k].reason = BY_OTHER

\* C14: no step removes a row of messages or changes its chat, sender, text
\* or urls. A new-message step leaves every stored row as it is; any other
\* step adds no row and changes at most the deleted flag of the row whose
\* deletion record it appends. The records written stay as they are and in
\* place: deletions only grows at its end.
C14_Frame ==
  [][/\ DOMAIN messages \subseteq DOMAIN messages'
     /\ \A i \in DOMAIN messages :
          [messages'[i] EXCEPT !.deleted = messages[i].deleted] = messages[i]
     /\ IF n_new' # n_new
        THEN \A i \in DOMAIN messages : messages'[i] = messages[i]
        ELSE /\ DOMAIN messages' = DOMAIN messages
             /\ \A i \in DOMAIN messages :
                  messages'[i] # messages[i] =>
                    /\ Len(deletions') = Len(deletions) + 1
                    /\ deletions'[Len(deletions')].msg_id = i
     /\ Len(deletions') >= Len(deletions)
     /\ \A k \in 1..Len(deletions) : deletions'[k] = deletions[k]]_vars

\* a row that a second new-message event with other columns, the deletion
\* handler and the watchdog have all acted on holds what the first event
\* wrote, with the flag set
C14_Witness ==
  /\ replayed
  /\ \E i \in DOMAIN messages :
       /\ messages[i] = [NewRow("u1", OWN_USER_ID, {SeeUrl}) EXCEPT !.deleted = TRUE]
       /\ CountRecords(i, BY_OWNER) = 1 /\ CountRecords(i, BY_OTHER) = 1

\* C15: msg_id alone is the key of messages. A new-message event with a
\* stored id stores nothing, from whatever chat it comes, and when the
\* deletion handler handles a stored id, whatever chat the event names, it
\* sets the flag of that one row and appends a record with the chat and the
\* text of the row.
C15_OneRowPerId ==
  [][/\ n_new' # n_new =>
          \A i \in DOMAIN messages : messages'[i] = messages[i]
     /\ HandledNow =>
          LET i == handler'.ids[handler'.i] IN
          i \in DOMAIN messages =>
            /\ messages' = [messages EXCEPT ![i].deleted = TRUE]
            /\ deletions' = Append(deletions,
                  [msg_id |-> i, chat_id |-> messages[i].chat_id,
                   message |-> messages[i].message,
                   reason |-> "deleted_by_owner"])]_vars

\* the one stored message is of chat u2; an event with its id came from
\* another chat, and a deletion event that names group g1 has marked the row
\* and left a record for chat u2
C15_Witness ==
  /\ n_new = 2 /\ replayed
  /\ handler.pc = "get_entity" /\ handler.hint = {"g1"}
  /\ \E i \in Ids :
       /\ DOMAIN messages = {i}
       /\ messages[i] = [NewRow("u2", OWN_USER_ID, {}) EXCEPT !.deleted = TRUE]
       /\ deletions = <<[msg_id |-> i, chat_id |-> "u2", message |-> <<>>,
                         reason |-> BY_OWNER]>>

\* C16: a record appended for an id that has a row when it is detected
\* carries the text and the chat of that row; and every record the watchdog
\* appends is for an id that has a row, so it carries the stored text and
\* never the sentinel.
C16_RecordCarriesRow ==
  [][Len(deletions') > Len(deletions) =>
       LET r == deletions'[Len(deletions')] IN
       /\ r.msg_id \in DOMAIN messages =>
            /\ r.message = messages[r.msg_id].message
            /\ r.chat_id = messages[r.msg_id].chat_id
       /\ wd' # wd => r.msg_id \in DOMAIN messages]_vars

\* the watchdog has just recorded a message whose id a later new-message
\* event brought again with another text: the record has the stored text
C16_Witness ==
  /\ wd.pc = "get_entity" /\ replayed /\ Len(deletions) >= 1
  /\ LET r == deletions[Len(deletions)] IN
     /\ r.reason = BY_OTHER /\ r.chat_id = "u1" /\ r.message = SeeUrl
     /\ r.msg_id \in DOMAIN messages
     /\ messages[r.msg_id].message = SeeUrl

\* C17: with the store working, a row whose deleted flag is set has a
\* deletion record for its id in every reachable state: flag and record are
\* written in one step of the handler or of the watchdog, so no other
\* coroutine sees the one without the other.
C17_FlagHasRecord ==
  \A i \in DOMAIN messages :
    messages[i].deleted =>
      CountRecords(i, BY_OWNER) + CountRecords(i, BY_OTHER) >= 1

\* the handler has marked a row and waits for get_entity while the watchdog
\* is in the middle of a fetch
C17_Witness ==
  /\ handler.pc = "get_entity" /\ wd.pc = "fetch"
  /\ LET i == handler.ids[handler.i] IN
     /\ i \in DOMAIN messages /\ messages[i].deleted
     /\ CountRecords(i, BY_OWNER) = 1 /\ CountRecords(i, BY_OTHER) = 0

\* C18 as stated: whenever an id has a deletion record and a row, the row's
\* deleted flag is set.
C18_RecordImpliesFlag ==
  \A i \in DOMAIN messages :
    CountRecords(i, BY_OWNER) + CountRecords(i, BY_OTHER) >= 1 => messages[i].deleted

\* C18 as amended: an id with a deletion record that carries stored text has
\* a row and the row's flag is set. A record with the never-seen sentinel
\* was appended when the id had no row: a row stored for the id afterwards
\* starts undeleted, and the record does not change that.
C18_SeenRecordImpliesFlag ==
  \A k \in 1..Len(deletions) :
    deletions[k].message # TextNotAvailable =>
      /\ deletions[k].msg_id \in DOMAIN messages
      /\ messages[deletions[k].msg_id].deleted

\* one deletion event listed a stored id and an unseen one, and the message
\* with the unseen id arrived afterwards: the first row is marked, the second
\* is not, each id has its record
C18_Witness ==
  \E i, j \in DOMAIN messages :
    /\ i # j
    /\ messages[i].deleted /\ ~messages[j].deleted
    /\ \E a, b \in 1..Len(deletions) :
         /\ deletions[a].msg_id = i /\ deletions[a].message = messages[i].message
         /\ deletions[b].msg_id = j /\ deletions[b].message = TextNotAvailable

\* C19: with fetches that yield every own message that is live from the
\* start of the fetch to its end, the watchdog appends a
\* deleted_by_other_party record only for an id that is not live in the
\* chat, under every interleaving with the new-message handler: a message
\* sent and stored while the fetch is suspended is not among the ids read
\* before the fetch.
C19_NoFalsePositive ==
  [][(wd' # wd /\ Len(deletions') > Len(deletions)) =>
       LET r == deletions'[Len(deletions')] IN
       /\ r.chat_id = wd.chat_id
       /\ r.msg_id \notin remote[wd.chat_id]
       /\ r.msg_id \in wd.db_msg_ids]_vars

\* the watchdog has declared a message of the chat missing; another own
\* message of the chat, sent and stored during the fetch, is live, was not
\* yielded and is neither marked nor recorded
C19_Witness ==
  /\ wd.pc = "get_entity"
  /\ \E i \in UndeletedOwnIds(messages, wd.chat_id) :
       /\ i \notin wd.db_msg_ids
       /\ i \in remote[wd.chat_id] \ wd.actual_msg_ids
       /\ CountRecords(i, BY_OTHER) = 0

\* C20: with the store working, over the iterations of the watchdog and
\* under every interleaving with the two handlers, no message id has more
\* than one deleted_by_other_party record.
C20_OneWatchdogRecord ==
  \A i \in Ids : CountRecords(i, BY_OTHER) <= 1

\* the second iteration has read the undeleted own ids of a chat and is
\* fetching its history; a message of the chat that the first iteration
\* marked and recorded is not among them
C20_Witness ==
  /\ n_iter = 2 /\ wd.pc = "fetch"
  /\ \E i \in DOMAIN messages :
       /\ messages[i].chat_id = wd.chat_id /\ messages[i].from_id = OWN_USER_ID
       /\ messages[i].deleted /\ CountRecords(i, BY_OTHER) = 1
       /\ i \notin wd.db_msg_ids /\ i \notin remote[wd.chat_id]

====
